---- MODULE Spec2Model ----
(***************************************************************************)
(* Model of arduino/go-serial-utils: Touch1200bps and Reset (reset.go),    *)
(* with the port enumeration of port_mapper.go.                            *)
(*                                                                         *)
(* Strings are sequences of one-character strings, so that                 *)
(* strings.HasSuffix and the += "0" of the dry-run emulator are computed.  *)
(* Time is a clock in milliseconds advanced only by time.Sleep.            *)
(***************************************************************************)
EXTENDS Integers, Sequences, FiniteSets, TLC

\* ------------------------------------------------------------------ bounds

\* the targets tried are "", "a", "a9", ..., "a" followed by MaxNines nines
MaxNines == 3

\* ------------------------------------------------------- program constants

TouchSettle == 500
DebounceDelay == 1000
PollInterval == 250
WaitTimeout == 10000
DryRunTimeout == 100

\* ------------------------------------------------------------------ strings

RECURSIVE Nines(_)
Nines(k) == IF k = 0 THEN << >> ELSE <<"9">> \o Nines(k - 1)

EmptyString == << >>
Suffix999 == <<"9", "9", "9">>
Zero == <<"0">>
NewPort == <<"n", "e", "w", "p", "o", "r", "t">>

\* strings.HasSuffix(s, suffix)
HasSuffix(s, suffix) ==
    /\ Len(s) >= Len(suffix)
    /\ SubSeq(s, Len(s) - Len(suffix) + 1, Len(s)) = suffix

\* ------------------------------------------------------------------- inputs

\* the names the operating system's enumerator can report
RealPorts == {<<"a">>, <<"b">>}

\* the values of portToTouch
Targets == {EmptyString} \cup {<<"a">> \o Nines(k) : k \in 0..MaxNines}

CallbackNames == {"TouchingPort", "WaitingForNewSerial", "BootloaderPortFound", "Debug"}

\* cb: a nil pointer, a struct with every member set, a struct with some nil members
NilCallbacks == [isNil |-> TRUE, members |-> {}]
AllCallbacks == [isNil |-> FALSE, members |-> CallbackNames]
SomeCallbacks == [isNil |-> FALSE, members |-> {"TouchingPort", "Debug"}]
CallbackChoices == {NilCallbacks, AllCallbacks, SomeCallbacks}

\* ------------------------------------------------------------------- errors

\* error values are the chain of messages built by fmt.Errorf("...: %w", err)
Nil == << >>
Wrap(msg, e) == <<msg>> \o e

\* failures of the serial library (go.bug.st/serial)
OpenFailure == <<"serial.Open failed">>
DTRFailure == <<"SetDTR failed">>
ListFailure == <<"GetPortsList failed">>
\* failure of a caller-supplied PortsMapper
CustomMapperFailure == <<"ports mapper failed">>

\* DefaultPortMapper applied to the outcome of serial.GetPortsList
DefaultPortMapper(ports, e) ==
    IF e # Nil
    THEN [ports |-> {}, err |-> Wrap("listing serial ports", e)]
    ELSE [ports |-> ports, err |-> Nil]

\* what the non-dry-run portsMapper (caller-supplied, or DefaultPortMapper when
\* nil) can return from one call
ExternalMapperResults ==
    {DefaultPortMapper(s, Nil) : s \in SUBSET RealPorts}
        \cup {DefaultPortMapper({}, ListFailure)}
        \cup {[ports |-> {}, err |-> CustomMapperFailure]}

EnumerationErrors == {r.err : r \in ExternalMapperResults} \ {Nil}

VARIABLES
    portToTouch, wait, dryRun, cb,                   \* arguments
    goos,                                            \* runtime.GOOS as read by Touch1200bps
    pc, clock, deadline, last, now, check,           \* Reset's locals
    emulatedPort, touchErr, result, err,
    portOpen,                                        \* the serial handle
    events, debugLog, enumCalls, extCalls,           \* observations
    touchCalls, dtrCalls, closes, closedAt,
    pollSleeps, debounceSleeps,
    initial, stable, failedErr, waitStart,
    recent, prevNow, nowAt, opens

inputs == <<portToTouch, wait, dryRun, cb>>
locals == <<pc, clock, deadline, last, now, check, emulatedPort, touchErr, result, err>>
observed == <<events, debugLog, enumCalls, extCalls, touchCalls, dtrCalls, closes,
              closedAt, pollSleeps, debounceSleeps, initial, stable, failedErr, waitStart,
              recent, prevNow, nowAt, opens>>
vars == <<inputs, goos, locals, portOpen, observed>>

\* ---------------------------------------------------------------- callbacks

\* cb != nil && cb.<name> != nil
HasCallback(name) == ~cb.isNil /\ name \in cb.members

\* the log of progress callbacks after a call of cb.<name>(port)
Notify(log, name, port) ==
    IF HasCallback(name) THEN Append(log, [cb |-> name, port |-> port]) ELSE log

\* the set of debug messages after cb.Debug(msg)
DebugSilent(log, msg) == log
Debug(log, msg) == IF HasCallback("Debug") THEN log \cup {msg} ELSE log

\* ----------------------------------------------------------------- emulator

\* the dry-run portsMapper: its result and the new value of emulatedPort
EmulatedPortsNone(e) == {}
EmulatedPorts(e) == IF e # EmptyString THEN {e} ELSE {}
EmulatedNextNoSuffixTest(e) ==
    IF e = EmptyString THEN NewPort ELSE e \o Zero
EmulatedNext(e) ==
    IF HasSuffix(e, Suffix999) THEN e \o Zero
    ELSE IF e = EmptyString THEN NewPort
    ELSE e

\* the outcomes of one call of portsMapper()
MapperOutcomes ==
    IF dryRun
    THEN {[ports |-> EmulatedPorts(emulatedPort), err |-> Nil,
           emu |-> EmulatedNext(emulatedPort), ext |-> 0]}
    ELSE {[ports |-> r.ports, err |-> r.err, emu |-> emulatedPort, ext |-> 1] :
              r \in ExternalMapperResults}

\* bookkeeping of one call of portsMapper() with outcome o
Enumerated(o) ==
    /\ o \in MapperOutcomes
    /\ enumCalls' = enumCalls + 1
    /\ extCalls' = extCalls + o.ext
    /\ emulatedPort' = o.emu
    /\ failedErr' = o.err

\* reset.go 115, 149, 178: if err != nil
EnumFailedNever(o) == FALSE
EnumFailed(o) == o.err # Nil

\* return p, e
Return(p, e) ==
    /\ result' = p
    /\ err' = e
    /\ pc' = "done"

Init ==
    /\ portToTouch \in Targets
    /\ wait \in BOOLEAN
    /\ dryRun \in BOOLEAN
    /\ cb \in CallbackChoices
    /\ goos = "unread"
    /\ pc = "setup"
    /\ clock = 0
    /\ deadline = 0
    /\ last = {}
    /\ now = {}
    /\ check = {}
    /\ emulatedPort = EmptyString
    /\ touchErr = Nil
    /\ result = EmptyString
    /\ err = Nil
    /\ portOpen = FALSE
    /\ events = << >>
    /\ debugLog = {}
    /\ enumCalls = 0
    /\ extCalls = 0
    /\ touchCalls = 0
    /\ dtrCalls = 0
    /\ closes = 0
    /\ closedAt = -1
    /\ pollSleeps = 0
    /\ debounceSleeps = 0
    /\ initial = {}
    /\ stable = {}
    /\ failedErr = Nil
    /\ waitStart = -1
    /\ recent = {}
    /\ prevNow = {}
    /\ nowAt = -1
    /\ opens = 0

\* reset.go 92-109: choose the ports mapper
Setup ==
    /\ pc = "setup"
    /\ emulatedPort' = IF dryRun THEN portToTouch ELSE emulatedPort
    /\ pc' = "snapshot"
    /\ UNCHANGED <<inputs, goos, clock, deadline, last, now, check, touchErr, result, err,
                   portOpen, observed>>

\* reset.go 111-117: the initial snapshot
InitialSnapshot ==
    /\ pc = "snapshot"
    /\ \E o \in MapperOutcomes :
        /\ Enumerated(o)
        /\ last' = o.ports
        /\ initial' = o.ports
        /\ debugLog' = Debug(debugLog, "LAST")
        /\ IF EnumFailed(o)
           THEN Return(EmptyString, o.err) /\ UNCHANGED <<recent, prevNow>>
           ELSE /\ pc' = "touch"
                /\ recent' = o.ports
                /\ prevNow' = o.ports
                /\ UNCHANGED <<result, err>>
    /\ UNCHANGED <<inputs, goos, clock, deadline, now, check, touchErr, portOpen, events,
                   touchCalls, dtrCalls, closes, closedAt, pollSleeps, debounceSleeps,
                   stable, waitStart, nowAt, opens>>

\* reset.go 119-128: the touch is wanted when the target is listed
TouchWantedAnyTarget == portToTouch # EmptyString
TouchWanted == portToTouch # EmptyString /\ portToTouch \in last

TouchRealInDryRun == TRUE
TouchReal == ~dryRun

TouchDecision ==
    /\ pc = "touch"
    /\ IF TouchWanted
       THEN /\ debugLog' = Debug(debugLog, "TOUCH")
            /\ events' = Notify(events, "TouchingPort", portToTouch)
            /\ IF TouchReal
               THEN pc' = "t_open" /\ touchCalls' = touchCalls + 1
               ELSE pc' = "waitflag" /\ UNCHANGED touchCalls
       ELSE /\ pc' = "waitflag"
            /\ UNCHANGED <<debugLog, events, touchCalls>>
    /\ UNCHANGED <<inputs, goos, clock, deadline, last, now, check, emulatedPort, touchErr,
                   result, err, portOpen, enumCalls, extCalls, dtrCalls, closes,
                   closedAt, pollSleeps, debounceSleeps, initial, stable, failedErr,
                   waitStart, recent, prevNow, nowAt, opens>>

\* the values of runtime.GOOS; it is fixed for a build and read only at
\* reset.go 36, where the model draws it
Platforms == {"windows", "linux"}

\* reset.go 36: runtime.GOOS != "windows"
NeedsDTR(os) == os # "windows"

\* reset.go 31-36: serial.Open at 1200 bps
TouchOpen ==
    /\ pc = "t_open"
    /\ \/ /\ portOpen' = TRUE
          /\ opens' = opens + 1
          /\ goos' \in Platforms
          /\ pc' = IF NeedsDTR(goos') THEN "t_dtr" ELSE "t_close"
          /\ UNCHANGED touchErr
       \/ /\ touchErr' = Wrap("opening port at 1200bps", OpenFailure)
          /\ pc' = "t_ret"
          /\ UNCHANGED <<portOpen, goos, opens>>
    /\ UNCHANGED <<inputs, clock, deadline, last, now, check, emulatedPort, result, err,
                   events, debugLog, enumCalls, extCalls, touchCalls, dtrCalls, closes,
                   closedAt, pollSleeps, debounceSleeps, initial, stable, failedErr,
                   waitStart, recent, prevNow, nowAt>>

\* reset.go 42: _ = p.Close() when SetDTR failed
CloseOnDTRFailureForgotten == FALSE
CloseOnDTRFailure == TRUE

\* reset.go 36-45: p.SetDTR(false), closing the port when it fails
TouchSetDTR ==
    /\ pc = "t_dtr"
    /\ dtrCalls' = dtrCalls + 1
    /\ \/ /\ pc' = "t_close"
          /\ UNCHANGED <<touchErr, portOpen, closes, closedAt>>
       \/ /\ IF CloseOnDTRFailure
             THEN /\ portOpen' = FALSE
                  /\ closes' = closes + 1
                  /\ closedAt' = clock
             ELSE UNCHANGED <<portOpen, closes, closedAt>>
          /\ touchErr' = Wrap("setting DTR to OFF", DTRFailure)
          /\ pc' = "t_ret"
    /\ UNCHANGED <<inputs, goos, clock, deadline, last, now, check, emulatedPort, result, err,
                   events, debugLog, enumCalls, extCalls, touchCalls, pollSleeps,
                   debounceSleeps, initial, stable, failedErr, waitStart, recent, prevNow,
                   nowAt, opens>>

\* reset.go 48: p.Close()
TouchClose ==
    /\ pc = "t_close"
    /\ portOpen' = FALSE
    /\ closes' = closes + 1
    /\ closedAt' = clock
    /\ pc' = "t_sleep"
    /\ UNCHANGED <<inputs, goos, clock, deadline, last, now, check, emulatedPort, touchErr,
                   result, err, events, debugLog, enumCalls, extCalls, touchCalls,
                   dtrCalls, pollSleeps, debounceSleeps, initial, stable, failedErr,
                   waitStart, recent, prevNow, nowAt, opens>>

\* reset.go 54-56: time.Sleep(500ms); return nil
TouchSleep ==
    /\ pc = "t_sleep"
    /\ clock' = clock + TouchSettle
    /\ touchErr' = Nil
    /\ pc' = "t_ret"
    /\ UNCHANGED <<inputs, goos, deadline, last, now, check, emulatedPort, result, err,
                   portOpen, observed>>

\* reset.go 129-131: a touch error ends Reset only when not waiting
TouchAbortsAlways == touchErr # Nil
TouchAborts == touchErr # Nil /\ ~wait

TouchReturn ==
    /\ pc = "t_ret"
    /\ IF TouchAborts
       THEN Return(EmptyString, Wrap("1200-bps touch", touchErr))
       ELSE pc' = "waitflag" /\ UNCHANGED <<result, err>>
    /\ UNCHANGED <<inputs, goos, clock, deadline, last, now, check, emulatedPort, touchErr,
                   portOpen, observed>>

\* reset.go 142-146: the time allowed for the wait
Timeout == IF dryRun THEN DryRunTimeout ELSE WaitTimeout

\* reset.go 135-146: return when not waiting, else start the wait
SkipWaitNever == FALSE
SkipWait == ~wait

WaitFlag ==
    /\ pc = "waitflag"
    /\ IF SkipWait
       THEN /\ Return(EmptyString, Nil)
            /\ UNCHANGED <<events, deadline, waitStart>>
       ELSE /\ events' = Notify(events, "WaitingForNewSerial", EmptyString)
            /\ waitStart' = clock
            /\ deadline' = clock + Timeout
            /\ pc' = "loop"
            /\ UNCHANGED <<result, err>>
    /\ UNCHANGED <<inputs, goos, clock, last, now, check, emulatedPort, touchErr, portOpen,
                   debugLog, enumCalls, extCalls, touchCalls, dtrCalls, closes, closedAt,
                   pollSleeps, debounceSleeps, initial, stable, failedErr, recent, prevNow,
                   nowAt, opens>>

\* reset.go 147: time.Now().Before(deadline)
BeforeDeadlineInclusive == clock <= deadline
BeforeDeadline == clock < deadline

\* reset.go 155-161: some port of the snapshot is not in last
HasNewPorts(snapshot) == \E p \in snapshot : p \notin last

\* reset.go 148-163, 197-198: the "now" snapshot of a poll iteration
PollNow ==
    /\ pc = "loop"
    /\ BeforeDeadline
    /\ \E o \in MapperOutcomes :
        /\ Enumerated(o)
        /\ IF EnumFailed(o)
           THEN /\ Return(EmptyString, o.err)
                /\ UNCHANGED <<debugLog, now, last, clock, pollSleeps, stable, recent,
                               prevNow, nowAt>>
           ELSE /\ stable' = o.ports \ initial
                /\ recent' = o.ports
                /\ prevNow' = o.ports
                /\ UNCHANGED <<result, err>>
                /\ IF HasNewPorts(o.ports)
                   THEN /\ debugLog' = Debug(Debug(debugLog, "WAIT"), "New ports found!")
                        /\ now' = o.ports
                        /\ nowAt' = clock
                        /\ pc' = "debounce"
                        /\ UNCHANGED <<last, clock, pollSleeps>>
                   ELSE /\ debugLog' = Debug(debugLog, "WAIT")
                        /\ last' = o.ports
                        /\ now' = {}
                        /\ nowAt' = -1
                        /\ clock' = clock + PollInterval
                        /\ pollSleeps' = pollSleeps + 1
                        /\ pc' = "loop"
    /\ UNCHANGED <<inputs, goos, deadline, check, touchErr, portOpen, events, touchCalls,
                   dtrCalls, closes, closedAt, debounceSleeps, initial, waitStart, opens>>

\* reset.go 171: the time after time.Sleep(time.Second)
AfterNoDebounce(t) == t
AfterDebounce(t) == t + DebounceDelay

\* reset.go 171: time.Sleep(time.Second)
Debounce ==
    /\ pc = "debounce"
    /\ clock' = AfterDebounce(clock)
    /\ debounceSleeps' = debounceSleeps + 1
    /\ pc' = "check"
    /\ UNCHANGED <<inputs, goos, deadline, last, now, check, emulatedPort, touchErr, result,
                   err, portOpen, events, debugLog, enumCalls, extCalls, touchCalls,
                   dtrCalls, closes, closedAt, pollSleeps, initial, stable, failedErr,
                   waitStart, recent, prevNow, nowAt, opens>>

\* reset.go 184-185: the ports of the "check" snapshot that Reset can return
\* (range over a Go map visits the keys in an unspecified order)
FoundInAnyPort(snapshot) == snapshot
FoundIn(snapshot) == {p \in snapshot : p \notin last}

\* reset.go 197: last = now
NextBaselineFromCheck(nowPorts, checkPorts) == checkPorts
NextBaseline(nowPorts, checkPorts) == nowPorts

\* reset.go 177-198: the "check" snapshot of a poll iteration
CheckSnapshot ==
    /\ pc = "check"
    /\ \E o \in MapperOutcomes :
        /\ Enumerated(o)
        /\ IF EnumFailed(o)
           THEN /\ Return(EmptyString, o.err)
                /\ UNCHANGED <<debugLog, events, check, now, last, clock, pollSleeps,
                               stable, recent, nowAt>>
           ELSE /\ stable' = stable \cap o.ports
                /\ recent' = o.ports
                /\ IF FoundIn(o.ports) # {}
                   THEN /\ \E p \in FoundIn(o.ports) :
                            /\ events' = Notify(events, "BootloaderPortFound", p)
                            /\ Return(p, Nil)
                        /\ debugLog' = Debug(debugLog, "CHECK")
                        /\ check' = o.ports
                        /\ UNCHANGED <<now, last, clock, pollSleeps, nowAt>>
                   ELSE /\ debugLog' = Debug(Debug(debugLog, "CHECK"),
                                             "Port check failed... still waiting")
                        /\ last' = NextBaseline(now, o.ports)
                        /\ now' = {}
                        /\ nowAt' = -1
                        /\ check' = {}
                        /\ clock' = clock + PollInterval
                        /\ pollSleeps' = pollSleeps + 1
                        /\ pc' = "loop"
                        /\ UNCHANGED <<events, result, err>>
    /\ UNCHANGED <<inputs, goos, deadline, touchErr, portOpen, touchCalls, dtrCalls, closes,
                   closedAt, debounceSleeps, initial, waitStart, prevNow, opens>>

\* reset.go 201-203: cb.BootloaderPortFound("")
TimeoutReportMissing(log) == log
TimeoutReport(log) == Notify(log, "BootloaderPortFound", EmptyString)

\* reset.go 147, 201-204: the deadline has passed
TimedOut ==
    /\ pc = "loop"
    /\ ~BeforeDeadline
    /\ events' = TimeoutReport(events)
    /\ Return(EmptyString, Nil)
    /\ UNCHANGED <<inputs, goos, clock, deadline, last, now, check, emulatedPort, touchErr,
                   portOpen, debugLog, enumCalls, extCalls, touchCalls, dtrCalls, closes,
                   closedAt, pollSleeps, debounceSleeps, initial, stable, failedErr,
                   waitStart, recent, prevNow, nowAt, opens>>

Next ==
    \/ Setup
    \/ InitialSnapshot
    \/ TouchDecision
    \/ TouchOpen
    \/ TouchSetDTR
    \/ TouchClose
    \/ TouchSleep
    \/ TouchReturn
    \/ WaitFlag
    \/ PollNow
    \/ Debounce
    \/ CheckSnapshot
    \/ TimedOut

Spec == Init /\ [][Next]_vars

\* Reset runs to completion: every step is taken once it is enabled
FairSpec == Spec /\ WF_vars(Next)

Returned == pc = "done"

\* ------------------------------------------------------------------- claims

BootloaderReports == {i \in DOMAIN events : events[i].cb = "BootloaderPortFound"}
Invoked(name) == \E i \in DOMAIN events : events[i].cb = name
EndsWith999(s) ==
    /\ Len(s) >= 3
    /\ s[Len(s)] = "9"
    /\ s[Len(s) - 1] = "9"
    /\ s[Len(s) - 2] = "9"
Supplied(name) == cb.isNil = FALSE /\ name \in cb.members

\* C1: a non-empty port returned by Reset was in the "now" snapshot and in the
\* "check" snapshot of the returning iteration and was absent from its baseline
\* "last".
C1_ReturnedPortInBothSnapshots ==
    (Returned /\ result # EmptyString) =>
        /\ result \in now
        /\ result \in check
        /\ result \notin last

\* C2: once a call of the enumeration function has failed, Reset has returned
\* the empty port with exactly that error, and neither the failing step nor any
\* later one enumerates again, touches, sleeps or reports progress.
C2_EnumerationFailureEndsReset ==
    /\ [](failedErr # Nil =>
            /\ Returned
            /\ result = EmptyString
            /\ err = failedErr
            /\ err \in EnumerationErrors)
    /\ [][failedErr' # Nil =>
            /\ UNCHANGED <<clock, events, touchCalls, pollSleeps, debounceSleeps>>
            /\ (failedErr # Nil => enumCalls' = enumCalls)]_vars

\* a "check" snapshot failed after a debounce sleep
C2_Witness ==
    /\ Returned
    /\ failedErr # Nil
    /\ debounceSleeps > 0
    /\ pc = "done"
    /\ enumCalls >= 3

\* C3: when a waiting Reset ends without enumeration failure and some port
\* absent from the initial snapshot has been in every snapshot since the "now"
\* snapshot of some poll iteration, Reset returns a non-empty port.
C3_SettledPortIsFound ==
    (Returned /\ wait /\ failedErr = Nil /\ err = Nil /\ stable # {}) =>
        result # EmptyString

\* C4: a waiting dry run returns target+"0" for a target ending in "999",
\* "newport" for the empty target and "" for any other target, with a nil error
\* and without calling the external enumerator.
C4_DryRunResult ==
    (Returned /\ dryRun /\ wait) =>
        /\ err = Nil
        /\ extCalls = 0
        /\ result = IF EndsWith999(portToTouch) THEN portToTouch \o <<"0">>
                    ELSE IF portToTouch = << >> THEN <<"n", "e", "w", "p", "o", "r", "t">>
                    ELSE << >>

C4_Witness ==
    /\ Returned
    /\ dryRun
    /\ wait
    /\ EndsWith999(portToTouch)
    /\ result = portToTouch \o <<"0">>

\* C5: with wait=false Reset returns the empty port after exactly one
\* enumeration, no debounce or poll sleep and no WaitingForNewSerial or
\* BootloaderPortFound callback; in a dry run the error is nil.
C5_NoWait ==
    (Returned /\ ~wait) =>
        /\ result = EmptyString
        /\ enumCalls = 1
        /\ pollSleeps = 0
        /\ debounceSleeps = 0
        /\ ~Invoked("WaitingForNewSerial")
        /\ ~Invoked("BootloaderPortFound")
        /\ (dryRun => err = Nil)

\* the port was touched and Reset returned without waiting
C5_Witness ==
    /\ Returned
    /\ ~wait
    /\ touchCalls = 1
    /\ clock = TouchSettle
    /\ err = Nil

\* C6: in a dry run Touch1200bps is never invoked, no port is opened and the
\* caller-supplied or default enumerator is never called.
C6_DryRunTouchesNothing ==
    dryRun =>
        /\ touchCalls = 0
        /\ extCalls = 0
        /\ ~portOpen
        /\ closes = 0
        /\ dtrCalls = 0

\* a dry run that announced the touch and polled the emulator
C6_Witness ==
    /\ dryRun
    /\ Returned
    /\ Invoked("TouchingPort")
    /\ enumCalls >= 2

\* C7: a failed touch ends Reset with the wrapped touch error and no further
\* enumeration when wait=false; when wait=true it is swallowed, the wait starts,
\* and any error Reset returns is an enumeration error.
C7_TouchFailure ==
    /\ (Returned /\ touchErr # Nil /\ ~wait) =>
            /\ result = EmptyString
            /\ err = <<"1200-bps touch">> \o touchErr
            /\ enumCalls = 1
    /\ (touchErr # Nil /\ wait /\ pc \notin {"t_ret", "waitflag"}) => waitStart >= 0
    /\ (Returned /\ wait) => err \in EnumerationErrors \cup {Nil}

\* the touch failed and the wait still found a port
C7_Witness ==
    /\ Returned
    /\ wait
    /\ touchErr # Nil
    /\ result # EmptyString

\* C8 (as stated): every waiting Reset that ends without enumeration failure
\* has invoked BootloaderPortFound exactly once, as its last progress callback,
\* with the returned port.
C8_ReportedExactlyOnce ==
    (Returned /\ wait /\ failedErr = Nil) =>
        /\ err = Nil
        /\ Cardinality(BootloaderReports) = 1
        /\ events[Len(events)].cb = "BootloaderPortFound"
        /\ events[Len(events)].port = result

\* C8 (amended): a waiting Reset that ends without enumeration failure returns
\* a nil error; when cb and cb.BootloaderPortFound are non-nil the callback has
\* been invoked exactly once, as the last progress callback, with the returned
\* port; otherwise it has not been invoked.
C8_ReportedOnceWhenSupplied ==
    (Returned /\ wait /\ failedErr = Nil) =>
        /\ err = Nil
        /\ IF Supplied("BootloaderPortFound")
           THEN /\ Cardinality(BootloaderReports) = 1
                /\ events[Len(events)].cb = "BootloaderPortFound"
                /\ events[Len(events)].port = result
           ELSE BootloaderReports = {}

\* the deadline passed and the empty port was reported
C8_Witness ==
    /\ Returned
    /\ wait
    /\ failedErr = Nil
    /\ result = EmptyString
    /\ Supplied("BootloaderPortFound")
    /\ events[Len(events)] = [cb |-> "BootloaderPortFound", port |-> EmptyString]

\* C9: the deadline is 10 s (100 ms in a dry run) after the wait starts, no poll
\* iteration starts at or after it, the clock never passes the deadline plus one
\* debounce delay plus one poll interval, and Reset returns.
C9_BoundedWait ==
    /\ [](waitStart >= 0 =>
            /\ deadline = waitStart + (IF dryRun THEN 100 ELSE 10000)
            /\ clock <= deadline + 1000 + 250)
    /\ [][(pc = "loop" /\ enumCalls' > enumCalls) => clock < deadline]_vars
    /\ <>Returned

\* a wait whose last iteration ended one debounce delay after the deadline
C9_Witness ==
    /\ Returned
    /\ wait
    /\ ~dryRun
    /\ result = EmptyString
    /\ clock = deadline + DebounceDelay

\* C10 (as stated): when the first enumeration of a non-dry-run Reset fails,
\* Reset returns the empty port and that error and no callback, Debug
\* included, has been invoked.
C10_FirstFailureNoCallback ==
    (Returned /\ ~dryRun /\ enumCalls = 1 /\ failedErr # Nil) =>
        /\ result = EmptyString
        /\ err = failedErr
        /\ events = << >>
        /\ debugLog = {}

\* C10 (amended): when the first enumeration of a non-dry-run Reset fails,
\* Reset returns the empty port and that error without invoking TouchingPort,
\* WaitingForNewSerial or BootloaderPortFound; Debug, when supplied, has been
\* invoked with the "LAST" message only.
C10_FirstFailureOnlyDebug ==
    (Returned /\ ~dryRun /\ enumCalls = 1 /\ failedErr # Nil) =>
        /\ result = EmptyString
        /\ err = failedErr
        /\ events = << >>
        /\ debugLog = IF Supplied("Debug") THEN {"LAST"} ELSE {}

C10_Witness ==
    /\ Returned
    /\ ~dryRun
    /\ enumCalls = 1
    /\ failedErr # Nil
    /\ Supplied("Debug")
    /\ debugLog = {"LAST"}

\* C11 (as stated): when wait=true and the touch has failed, a Debug message
\* emitted after the touch was attempted (any message other than "LAST" and
\* "TOUCH", which precede the touch) has been logged when the wait starts.
C11_TouchFailureLogged ==
    (pc = "loop" /\ enumCalls = 1 /\ wait /\ touchErr # Nil /\ Supplied("Debug")) =>
        debugLog \ {"LAST", "TOUCH"} # {}

\* C12 (as stated): at the start of a poll iteration and when "check" is about
\* to be diffed, "last" is the result of the most recent successful
\* enumeration.
C12_BaselineIsMostRecent ==
    pc \in {"loop", "check"} => last = recent

\* C12 (amended): at the start of a poll iteration "last" is the most recent
\* "now" snapshot (the initial snapshot before the first iteration), which is
\* the most recent enumeration result unless a failed check followed it; while
\* an iteration debounces and checks, "last" is not its "now", which is the most
\* recent enumeration result.
C12_BaselineIsPreviousNow ==
    /\ pc = "loop" =>
            /\ last = prevNow
            /\ (recent # last => debounceSleeps > 0)
    /\ pc \in {"debounce", "check"} =>
            /\ recent = now
            /\ prevNow = now
            /\ last # now

\* a failed check whose result differs from the new baseline
C12_Witness ==
    /\ pc = "loop"
    /\ debounceSleeps > 0
    /\ recent # last
    /\ last = prevNow

\* C13 (as stated): a port returned by Reset was not in the initial snapshot.
C13_NeverReturnsInitialPort ==
    (Returned /\ result # EmptyString) => result \notin initial

\* C13 (amended): a port returned by Reset was not in the baseline "last" of
\* the returning iteration, which is the initial snapshot in the first poll
\* iteration only.
C13_NeverReturnsBaselinePort ==
    (Returned /\ result # EmptyString) =>
        /\ result \notin last
        /\ (pollSleeps = 0 => result \notin initial /\ last = initial)

\* a port of the initial snapshot that vanished, came back and was returned
C13_Witness ==
    /\ Returned
    /\ result # EmptyString
    /\ result \in initial
    /\ result \notin last
    /\ pollSleeps > 0

\* C14: an iteration whose "check" has no port absent from "last" does not
\* return or report, sets "last" to its "now", sleeps 250 ms and polls again;
\* an iteration without candidate sets "last" to "now" after one enumeration
\* and no debounce sleep.
C14_FailedCheckAdvancesBaseline ==
    [][/\ (pc = "check" /\ enumCalls' > enumCalls /\ failedErr' = Nil
              /\ recent' \ last = {}) =>
            /\ pc' = "loop"
            /\ last' = now
            /\ \A p \in now : p \in last'
            /\ clock' = clock + 250
            /\ pollSleeps' = pollSleeps + 1
            /\ events' = events
            /\ result' = result
       /\ (pc = "loop" /\ enumCalls' > enumCalls /\ failedErr' = Nil
              /\ recent' \ last = {}) =>
            /\ pc' = "loop"
            /\ last' = recent'
            /\ enumCalls' = enumCalls + 1
            /\ debounceSleeps' = debounceSleeps
            /\ clock' = clock + 250]_vars

\* a port in "now" was gone from "check": the glitch
C14_Witness ==
    /\ pc = "loop"
    /\ debounceSleeps = 1
    /\ pollSleeps = 1
    /\ recent = {}
    /\ last # {}

Rank(name) ==
    CASE name = "TouchingPort" -> 1
      [] name = "WaitingForNewSerial" -> 2
      [] name = "BootloaderPortFound" -> 3

TouchReports == {i \in DOMAIN events : events[i].cb = "TouchingPort"}

\* C16: the touch is attempted at most once, and only for a non-empty target
\* that is in the initial snapshot; otherwise neither TouchingPort nor
\* Touch1200bps is invoked; Reset("", wait=false, dryRun=false) whose
\* enumeration succeeds returns ("", nil) after no touch, no wait and no sleep.
C16_TouchAtMostOnce ==
    /\ touchCalls <= 1
    /\ opens <= 1
    /\ Cardinality(TouchReports) <= 1
    /\ (touchCalls > 0 \/ Invoked("TouchingPort")) =>
            /\ portToTouch # << >>
            /\ portToTouch \in initial
    /\ (Returned /\ portToTouch = << >> /\ ~wait /\ ~dryRun /\ failedErr = Nil) =>
            /\ result = << >>
            /\ err = Nil
            /\ touchCalls = 0
            /\ enumCalls = 1
            /\ clock = 0
            /\ waitStart < 0

\* the touch failed, Reset waited until the deadline and never touched again
C16_Witness ==
    /\ Returned
    /\ wait
    /\ touchCalls = 1
    /\ touchErr # Nil
    /\ pollSleeps >= 2
    /\ result = EmptyString

\* C17: outside Touch1200bps no serial handle is open and the port has been
\* closed exactly as often as it was opened (at most once); when the open
\* failed there was no close and no SetDTR call; on Windows SetDTR is not
\* called.
C17_HandleClosed ==
    /\ opens <= 1
    /\ closes <= opens
    /\ pc \notin {"t_dtr", "t_close"} => (~portOpen /\ closes = opens)
    /\ touchErr = <<"opening port at 1200bps">> \o OpenFailure =>
            (opens = 0 /\ closes = 0 /\ dtrCalls = 0)
    /\ goos = "windows" => dtrCalls = 0

\* SetDTR failed, the port was closed once and Reset went on to enumerate
C17_Witness ==
    /\ Returned
    /\ opens = 1
    /\ closes = 1
    /\ dtrCalls = 1
    /\ touchErr = <<"setting DTR to OFF">> \o DTRFailure
    /\ enumCalls >= 2

\* C18: once Touch1200bps has closed the port, it has slept 500 ms when it
\* returns, so that Reset (about to test the wait flag or to enumerate) is at
\* least 500 ms past the close.
C18_SettleAfterClose ==
    (closedAt >= 0 /\ pc \in {"t_ret", "waitflag", "loop"}) =>
        clock >= closedAt + 500

\* C19: a non-empty port returned by Reset is in the "check" snapshot, which
\* is the last snapshot produced, and not in "last"; the error is nil and the
\* debounce sleep of 1 s lies between the "now" snapshot that raised a
\* candidate and that "check" snapshot.
C19_ReturnedPortChecked ==
    (Returned /\ result # EmptyString) =>
        /\ result \in check
        /\ check = recent
        /\ result \notin last
        /\ err = Nil
        /\ now = prevNow
        /\ now \ last # {}
        /\ debounceSleeps >= 1
        /\ nowAt >= 0
        /\ clock - nowAt >= 1000

\* the returned port first appeared in the check snapshot
C19_Witness ==
    /\ Returned
    /\ result # EmptyString
    /\ result \in check
    /\ result \notin now
    /\ clock = nowAt + DebounceDelay

\* C20 (as stated): in a dry run with a non-empty target every snapshot of the
\* emulator contains the target.
C20_EmulatorKeepsTarget ==
    (dryRun /\ portToTouch # << >> /\ enumCalls >= 1) => portToTouch \in recent

\* C20 (amended): in a dry run with a non-empty target every snapshot of the
\* emulator is exactly {target}, except that for a target ending in "999" every
\* snapshot after the initial one is exactly {target+"0"}.
C20_EmulatorSnapshots ==
    (dryRun /\ portToTouch # << >> /\ enumCalls >= 1) =>
        recent = IF EndsWith999(portToTouch) /\ enumCalls >= 2
                 THEN {portToTouch \o <<"0">>}
                 ELSE {portToTouch}

\* the third snapshot of the emulator for a target ending in "999"
C20_Witness ==
    /\ dryRun
    /\ EndsWith999(portToTouch)
    /\ enumCalls = 3
    /\ recent = {portToTouch \o <<"0">>}

====
